---- MODULE Spec2Model ----
(***************************************************************************)
(* Verification model of the regulation consolidation and curb            *)
(* segmentation engine (package cygne).                                    *)
(*                                                                         *)
(* The engine driver is PanCollection (cygne/core/inventory.py); the data  *)
(* classes are Rule, UserClass, Period, Regulation, Location and Panel of  *)
(* cygne/core/*.py.  A Panel holds a list of Regulations, so wherever the  *)
(* driver hands "the regulation" of a panel to a per-Regulation method the *)
(* model applies the method to each Regulation of the list, in order.      *)
(*                                                                         *)
(* Python values: None is NoneV for numbers and NA for strings; a raised   *)
(* exception is recorded in err and stops the run (pc = "error").          *)
(***************************************************************************)
EXTENDS Integers, Sequences, FiniteSets, TLC

----------------------------------------------------------------------------
(* Bounds of the model *)

MaxRows == 2     \* sign rows read by one ingestion
MaxSubs == 1     \* sub-placard rows read by one ingestion
MaxIds == 2      \* distinct globalid_panneau values

NoneV == -1
NA == "NA"

----------------------------------------------------------------------------
(* Generic helpers *)

Range(s) == {s[i] : i \in 1..Len(s)}

Last(s) == s[Len(s)]

RECURSIVE Concat(_)
Concat(ss) == IF ss = <<>> THEN <<>> ELSE Head(ss) \o Concat(Tail(ss))

Max(S) == CHOOSE x \in S : \A y \in S : y <= x

----------------------------------------------------------------------------
(* cygne/core/enum.py *)

START == 1
NO_ARROW == 2
END == 3

INTERDICTION == 0
PERMISSION == 1

RIGHT == 1
LEFT == -1

DIGITALIZATION_DIR == 1
REVERSE_DIR == -1
BOTH_DIR == 0
UNSET == -2

----------------------------------------------------------------------------
(* cygne/core/periods.py *)

MONTHS_MAP ==
    <<"janvier", "fevrier", "mars", "avril", "mai", "juin", "juillet", "aout",
      "septembre", "octobre", "novembre", "decembre">>

DAYS == <<"lundi", "mardi", "mercredi", "jeudi", "vendredi", "samedi", "dimanche">>

\* A string that the code splits is the sequence of its words and separators:
\* 'lundi-vendredi' is <<"lundi", "-", "vendredi">>; '' and NaN are <<>>.

\* DAYS.index(d), or -1 for the ValueError of a string that is no element
DaysIndex(d) ==
    IF Len(d) = 1 /\ d[1] \in Range(DAYS)
    THEN (CHOOSE i \in 1..Len(DAYS) : DAYS[i] = d[1]) - 1
    ELSE -1

\* str.split(sep)
RECURSIVE Split(_, _)
Split(str, sep) ==
    IF \A i \in 1..Len(str) : str[i] # sep THEN <<str>>
    ELSE LET i == CHOOSE j \in 1..Len(str) :
                     str[j] = sep /\ \A k \in 1..(j - 1) : str[k] # sep
         IN <<SubSeq(str, 1, i - 1)>> \o Split(SubSeq(str, i + 1, Len(str)), sep)

\* str.replace(old, new)
Replace(str, old, new) == [i \in 1..Len(str) |-> IF str[i] = old THEN new ELSE str[i]]

\* list(range(first, last + 1))
RangeList(first, last) ==
    IF last < first THEN <<>> ELSE [i \in 1..(last - first + 1) |-> first + i - 1]

\* parse_days: [raised, days]
parse_days(day) ==
    LET parts == Split(day, "-")
        first == DaysIndex(Head(parts))
        last == DaysIndex(Last(parts))
        terms == Split(day, "+")
    IN IF day = <<"dim", "-", "sam">>
       THEN [raised |-> "none", days |-> RangeList(0, 6)]
       ELSE IF DaysIndex(day) # -1
       THEN [raised |-> "none", days |-> <<DaysIndex(day)>>]
       ELSE IF "-" \in Range(day)
       THEN IF first = -1 \/ last = -1
            THEN [raised |-> "ValueError", days |-> <<>>]
            ELSE [raised |-> "none", days |-> RangeList(first, last)]
       ELSE IF "+" \in Range(day)
       THEN IF \E i \in 1..Len(terms) : DaysIndex(terms[i]) = -1
            THEN [raised |-> "ValueError", days |-> <<>>]
            ELSE [raised |-> "none",
                  days |-> [i \in 1..Len(terms) |-> DaysIndex(terms[i])]]
       ELSE [raised |-> "NotImplementedError", days |-> <<>>]

\* check_days: [raised, days]
check_days(months) ==
    IF months = <<>> THEN [raised |-> "none", days |-> <<>>]
    ELSE parse_days(Replace(months, ",", "-"))

\* Ctime.from_string(time, "HH:MM:SS").as_datetime(): the time of day of
\* <<HH, MM, SS>>; a time of day is the number 100 * HH + MM
CtimeFromString(time) == 100 * time[1] + time[2]

\* check_hours: [raised, start_hour, end_hour]
check_hours(hour_deb, hour_fin) ==
    LET start_hour == IF hour_deb = <<>> THEN NoneV ELSE CtimeFromString(hour_deb)
        end_hour == IF hour_fin = <<>> THEN NoneV ELSE CtimeFromString(hour_fin)
    IN [raised |-> \/ (start_hour # NoneV /\ end_hour = NoneV)
                   \/ (start_hour = NoneV /\ end_hour # NoneV)
                   \/ (start_hour = 0 /\ end_hour = 0),
        start_hour |-> start_hour, end_hour |-> end_hour]

Period(start_hour, end_hour, days, start_date, end_date) ==
    [start_hour |-> start_hour, end_hour |-> end_hour, days |-> days,
     start_date |-> start_date, end_date |-> end_date]

hour_empty(p) == ~(p.start_hour # NoneV /\ p.end_hour # NoneV)

days_empty(p) == p.days = <<>>

dates_empty(p) == ~(p.start_date # NoneV /\ p.end_date # NoneV)

PeriodEmpty(p) == hour_empty(p) /\ dates_empty(p) /\ days_empty(p)

\* Period.update: a field of self is kept when set, adopted from other when unset
PeriodUpdate(self, other) ==
    IF PeriodEmpty(self) THEN other
    ELSE [start_hour |-> IF self.start_hour = NoneV THEN other.start_hour ELSE self.start_hour,
          end_hour |-> IF self.end_hour = NoneV THEN other.end_hour ELSE self.end_hour,
          days |-> IF self.days = <<>> THEN other.days ELSE self.days,
          start_date |-> IF self.start_date = NoneV THEN other.start_date ELSE self.start_date,
          end_date |-> IF self.end_date = NoneV THEN other.end_date ELSE self.end_date]

----------------------------------------------------------------------------
(* cygne/core/utils.py; a date of 1970 is the number 100 * month + day *)

Date(month, day) == 100 * month + day

\* the days of the months of 1970
MonthLength(month) ==
    IF month = 2 THEN 28 ELSE IF month \in {4, 6, 9, 11} THEN 30 ELSE 31

safe_end_of_month(month) == Date(month, MonthLength(month))

\* date(1970, month, day) raises ValueError for a day the month has not
DateRaises(month, day) == day < 1 \/ day > MonthLength(month)

\* the groups of groupby(enumerate(months), index - value): the maximal runs
\* of months that each follow their predecessor by one
RECURSIVE Runs(_, _)
Runs(months, acc) ==
    IF months = <<>> THEN acc
    ELSE IF acc # <<>> /\ Head(months) = Last(Last(acc)) + 1
    THEN Runs(Tail(months),
              [acc EXCEPT ![Len(acc)] = Append(acc[Len(acc)], Head(months))])
    ELSE Runs(Tail(months), Append(acc, <<Head(months)>>))

\* the loop of from_inventory_to_list_date over the runs
RECURSIVE DatesLoop(_, _, _, _, _)
DatesLoop(start_day, end_day, runs, dates_from, dates_to) ==
    IF runs = <<>> THEN [dates_from |-> dates_from, dates_to |-> dates_to]
    ELSE LET consec_months == Head(runs)
             first == consec_months[1] + 1
             last == Last(consec_months) + 1
             from_ == IF DateRaises(first, start_day)
                      THEN dates_from
                      ELSE Append(dates_from, Date(first, start_day))
             to1 == IF DateRaises(first, start_day)
                    THEN Append(dates_to, safe_end_of_month(first))
                    ELSE dates_to
             to2 == IF DateRaises(last, end_day)
                    THEN Append(to1, safe_end_of_month(last))
                    ELSE Append(to1, Date(last, end_day))
         IN DatesLoop(start_day, end_day, Tail(runs), from_, to2)

\* from_inventory_to_list_date: [raised, dates_from, dates_to]; date() raises
\* TypeError for a day that is None
from_inventory_to_list_date(start_day, end_day, months) ==
    IF months = <<>>
    THEN [raised |-> "none", dates_from |-> <<>>, dates_to |-> <<>>]
    ELSE IF start_day = NoneV \/ end_day = NoneV
    THEN [raised |-> "TypeError", dates_from |-> <<>>, dates_to |-> <<>>]
    ELSE LET d == DatesLoop(start_day, end_day, Runs(months, <<>>), <<>>, <<>>)
         IN [raised |-> "none", dates_from |-> d.dates_from, dates_to |-> d.dates_to]

----------------------------------------------------------------------------
(* cygne/core/periods.py: dates and Period.from_inventory *)

\* MONTHS_MAP.get(name): the index of the month, None for another string
MonthsGet(name) ==
    IF Len(name) = 1 /\ name[1] \in Range(MONTHS_MAP)
    THEN (CHOOSE i \in 1..Len(MONTHS_MAP) : MONTHS_MAP[i] = name[1]) - 1
    ELSE NoneV

\* sorted(months) for a list of numbers
RECURSIVE SortedMonths(_)
SortedMonths(months) ==
    IF months = <<>> THEN <<>>
    ELSE LET i == CHOOSE j \in 1..Len(months) :
                     \A k \in 1..Len(months) :
                         months[j] < months[k] \/ (months[j] = months[k] /\ j <= k)
         IN <<months[i]>>
            \o SortedMonths(SubSeq(months, 1, i - 1) \o SubSeq(months, i + 1, Len(months)))

\* the month numbers of the names of 'janvier,fevrier'
MonthIndices(months) ==
    IF months = <<>> THEN <<>>
    ELSE [i \in 1..Len(Split(months, ",")) |-> MonthsGet(Split(months, ",")[i])]

\* start_day if start_day and not pd.isna(start_day) else None
DayOrNone(day) == IF day = NoneV \/ day = 0 THEN NoneV ELSE day

\* the tests of check_dates on the month numbers, on whether a day bound is
\* set, and on the result d of from_inventory_to_list_date
CheckedDates(indices, days, d) ==
    LET none == [raised |-> "none", dates_from |-> <<NoneV>>, dates_to |-> <<NoneV>>]
    IN IF (indices # <<>> /\ ~days) \/ (days /\ indices = <<>>)
       THEN [none EXCEPT !.raised = "ValueError"]
       ELSE IF \E i \in 1..Len(indices) : indices[i] = NoneV
       THEN [none EXCEPT !.raised = "TypeError"]
       ELSE IF d.raised # "none" THEN [none EXCEPT !.raised = d.raised]
       ELSE IF d.dates_from = <<>> THEN none
       ELSE IF Len(d.dates_from) # Len(d.dates_to)
       THEN [none EXCEPT !.raised = "ValueError"]
       ELSE d

CheckDatesOn(indices, start_day_month, end_day_month) ==
    CheckedDates(indices,
                 start_day_month # NoneV \/ end_day_month # NoneV,
                 from_inventory_to_list_date(start_day_month, end_day_month,
                                             SortedMonths(indices)))

\* check_dates: [raised, dates_from, dates_to]
check_dates(months, start_day, end_day) ==
    CheckDatesOn(MonthIndices(months), DayOrNone(start_day), DayOrNone(end_day))

SCHOOL_PERIOD_1 ==
    [days |-> <<0, 1, 2, 3, 4>>, start_hour |-> NoneV, end_hour |-> NoneV,
     start_date |-> Date(1, 1), end_date |-> Date(6, 30)]

SCHOOL_PERIOD_2 ==
    [days |-> <<0, 1, 2, 3, 4>>, start_hour |-> NoneV, end_hour |-> NoneV,
     start_date |-> Date(9, 1), end_date |-> Date(12, 31)]

\* [d for d in range(len(DAYS)) if d not in days]
OtherDays(days) == SelectSeq(RangeList(0, Len(DAYS) - 1), LAMBDA d : d \notin Range(days))

keep_period(p) == <<p>>

\* reverse_period
reverse_period(p) ==
    LET periods ==
          <<Period(IF p.start_hour # NoneV THEN 0 ELSE NoneV, p.start_hour,
                   OtherDays(p.days),
                   IF p.start_date # NoneV THEN Date(1, 1) ELSE NoneV, p.start_date),
            Period(p.end_hour, IF p.end_hour # NoneV THEN 2359 ELSE NoneV,
                   OtherDays(p.days),
                   p.end_date, IF p.end_date # NoneV THEN Date(12, 31) ELSE NoneV)>>
    IN IF periods[1] = periods[2] THEN <<periods[1]>> ELSE periods

RECURSIVE ReverseAll(_)
ReverseAll(periods) ==
    IF periods = <<>> THEN <<>>
    ELSE reverse_period(Head(periods)) \o ReverseAll(Tail(periods))

\* the Periods of Period.from_inventory, given the results of check_hours,
\* check_days and check_dates: [raised, error, periods]
PeriodsOf(is_except, school, hours, checked, dates) ==
    LET dates_from == IF school
                      THEN <<SCHOOL_PERIOD_1.start_date, SCHOOL_PERIOD_2.start_date>>
                      ELSE dates.dates_from
        dates_to == IF school
                    THEN <<SCHOOL_PERIOD_1.end_date, SCHOOL_PERIOD_2.end_date>>
                    ELSE dates.dates_to
        days == IF school /\ checked.days = <<>> THEN SCHOOL_PERIOD_1.days
                ELSE checked.days
        periods == [i \in 1..Len(dates_from) |->
                      Period(hours.start_hour, hours.end_hour, days,
                             dates_from[i], dates_to[i])]
        error == IF hours.raised THEN "ValueError"
                 ELSE IF checked.raised # "none" THEN checked.raised
                 ELSE dates.raised
    IN IF error # "none"
       THEN [raised |-> TRUE, error |-> error, periods |-> <<>>]
       ELSE [raised |-> FALSE, error |-> "none",
             periods |-> IF is_except THEN ReverseAll(periods) ELSE periods]

\* Period.from_inventory: [raised, error, periods]
PeriodFromInventory(pan) ==
    PeriodsOf(pan.RegTmpExcept = "oui",
              pan.RegTmpEcole # NA /\ pan.RegTmpEcole # "",
              check_hours(pan.RegTmpHeureDebut, pan.RegTmpHeureFin),
              check_days(pan.RegTmpJours),
              check_dates(pan.panneau_mois, pan.panneau_an_jour_debut,
                          pan.panneau_an_jour_fin))

----------------------------------------------------------------------------
(* cygne/core/user_class.py *)

\* permit is None (NonePermit) when the constructor default is used
NonePermit == <<"<None>">>

UserClass(is_except, category, permit) ==
    [is_except |-> is_except, category |-> category, permit |-> permit]

UserClassFromInventory(pan) ==
    LET is_except == pan.RegVehExcept = "oui"
        category == IF pan.RegVehType = NA THEN <<>> ELSE <<pan.RegVehType>>
        permit == IF pan.RegVehSRRR = NA THEN <<>> ELSE <<pan.RegVehSRRR>>
        first == <<UserClass(is_except, category, permit)>>
    IN IF pan.RegHandicap = "oui"
       THEN Append(first, UserClass(TRUE, <<"handicap">>, NonePermit))
       ELSE first

UserClassEmpty(uc) == ~(uc.category # <<>> \/ (uc.permit # <<>> /\ uc.permit # NonePermit))

----------------------------------------------------------------------------
(* cygne/core/rule.py *)

Rule(activity, type, reason, priority, max_stay, payement) ==
    [activity |-> activity, type |-> type, reason |-> reason,
     priority |-> priority, max_stay |-> max_stay, payement |-> payement]

RuleFromInventory(pan) ==
    LET activity == IF pan.RegNature = NA THEN -1
                    ELSE IF pan.RegNature = "permission" THEN PERMISSION
                    ELSE INTERDICTION
        type_ == IF pan.RegTypeImmo = NA \/ pan.RegTypeImmo = "stationnement" THEN "parking"
                 ELSE IF pan.RegTypeImmo = "arret" THEN "standing"
                 ELSE pan.RegTypeImmo
        reason == IF pan.panneau_type # NA THEN pan.panneau_type ELSE type_
    IN Rule(activity, type_, reason, pan.ObjetPositionSeq, pan.RegTmpDuree, FALSE)

RuleIsEmpty(r) ==
    /\ r.activity = -1
    /\ r.type = ""
    /\ r.reason = ""
    /\ (r.priority = NoneV \/ r.priority = 0)
    /\ (r.max_stay = NoneV \/ r.max_stay = 0)

\* Rule.__eq__: payement and authority are not compared, -1 matches any activity
RuleEq(a, b) ==
    IF RuleIsEmpty(a) \/ RuleIsEmpty(b) THEN TRUE
    ELSE /\ (a.activity = b.activity \/ b.activity = -1 \/ a.activity = -1)
         /\ a.type = b.type
         /\ a.reason = b.reason
         /\ a.priority = b.priority
         /\ a.max_stay = b.max_stay

RuleHash(r) == <<r.activity, r.type, r.priority, r.max_stay>>

\* Rule.exempt: rules is the returned list, self the receiver after the call
RuleExempt(r) ==
    IF r.activity = PERMISSION
    THEN LET other == [r EXCEPT !.max_stay = NoneV,
                                !.payement = IF r.payement THEN ~r.payement ELSE FALSE]
         IN [rules |-> <<other, r>>, self |-> r]
    ELSE IF r.activity = INTERDICTION
    THEN LET flipped == [r EXCEPT !.activity = PERMISSION]
         IN [rules |-> <<flipped>>, self |-> flipped]
    ELSE [rules |-> <<r>>, self |-> r]

----------------------------------------------------------------------------
(* cygne/core/regulations.py *)

\* ucl is the identity of the Python list object held in user_class: two
\* Regulations with the same ucl on one Panel share that list
Regulation(rule, user_class, periods, other_text, ucl) ==
    [rule |-> rule, user_class |-> user_class, periods |-> periods,
     other_text |-> other_text, ucl |-> ucl]

RegulationFromInventory(pan) ==
    LET rule == RuleFromInventory(pan)
        user_class == UserClassFromInventory(pan)
        per == PeriodFromInventory(pan)
        nexc == Cardinality({i \in 1..Len(user_class) : user_class[i].is_except})
        mixed == nexc > 0 /\ nexc < Len(user_class)
        rules == RuleExempt(rule).rules
    IN IF per.raised \/ mixed
       THEN [raised |-> TRUE, regs |-> <<>>]
       ELSE IF user_class[1].is_except
       THEN [raised |-> FALSE,
             regs |-> [i \in 1..Len(rules) |->
                         Regulation(rules[i], user_class, per.periods, pan.AutreTexte, 1)]]
       ELSE [raised |-> FALSE,
             regs |-> <<Regulation(rule, user_class, per.periods, pan.AutreTexte, 1)>>]

RegulationEq(a, b) ==
    /\ RuleEq(a.rule, b.rule)
    /\ a.user_class = b.user_class
    /\ a.periods = b.periods

\* Regulation.merge: raised is "ValueError", "RuntimeWarning" or "none"
RegulationMerge(self, other) ==
    IF ~RuleEq(self.rule, other.rule)
    THEN [raised |-> "ValueError", reg |-> self]
    ELSE IF RegulationEq(self, other)
    THEN [raised |-> "RuntimeWarning", reg |-> self]
    ELSE [raised |-> "none",
          reg |-> [self EXCEPT
                     !.periods = IF self.periods # other.periods
                                 THEN self.periods \o other.periods ELSE self.periods,
                     !.user_class = IF self.user_class # other.user_class
                                    THEN self.user_class \o other.user_class
                                    ELSE self.user_class]]

----------------------------------------------------------------------------
(* cygne/core/location.py *)

Location(location, side_of_street, street_id) ==
    [location |-> location, side_of_street |-> side_of_street, street_id |-> street_id,
     asset_type |-> "type", linear_reference |-> -1, traffic_dir |-> UNSET,
     road_length |-> -1]

\* Location.__eq__ and Location.__hash__ use the identity tuple only
LocationKey(l) == <<l.location, l.side_of_street, l.street_id>>

----------------------------------------------------------------------------
(* cygne/core/panel.py *)

PanelFromInventory(pan) ==
    LET arrow == IF pan.RegFleche = "vers rue" THEN START
                 ELSE IF pan.RegFleche = "vers trottoir" THEN END
                 ELSE NO_ARROW
        side == IF pan.cote_rue_id % 10 = 1 THEN RIGHT ELSE LEFT
        r == RegulationFromInventory(pan)
    IN [raised |-> r.raised,
        panel |-> [unique_id |-> pan.globalid_panneau,
                   position |-> pan.ObjetPositionSeq,
                   arrow |-> arrow,
                   regulation |-> r.regs,
                   location |-> Location(pan.geometry, side, pan.IdTroncon)]]

RECURSIVE UpdateAll(_, _)
UpdateAll(period, additional) ==
    IF additional = <<>> THEN period
    ELSE UpdateAll(PeriodUpdate(period, Head(additional)), Tail(additional))

\* Panel.extend_period: the inner loops rebind regulation.periods to the
\* one-element list holding the period they are at, so the last one stays
extend_period(regs, reg) ==
    IF \A i \in 1..Len(reg.periods) : PeriodEmpty(reg.periods[i])
    THEN regs
    ELSE [i \in 1..Len(regs) |->
            IF regs[i].periods = <<>>
            THEN [regs[i] EXCEPT !.periods = reg.periods]
            ELSE [regs[i] EXCEPT !.periods = <<UpdateAll(Last(regs[i].periods), reg.periods)>>]]

\* list.extend on the list object ucl, seen by every Regulation sharing it
ExtendList(regs, ucl, extra) ==
    [i \in 1..Len(regs) |->
        IF regs[i].ucl = ucl THEN [regs[i] EXCEPT !.user_class = @ \o extra] ELSE regs[i]]

RECURSIVE ExtendUserclassLoop(_, _, _, _)
ExtendUserclassLoop(regs, i, reg, subl) ==
    IF i > Len(regs) THEN regs
    ELSE IF reg.user_class[1].is_except
    THEN LET ex == RuleExempt(regs[i].rule)
             regs1 == [regs EXCEPT ![i].rule = ex.self]
         IN IF Len(ex.rules) = 2
            THEN Append(regs1, Regulation(ex.rules[1], reg.user_class, regs[i].periods,
                                          reg.other_text, subl))
            ELSE ExtendUserclassLoop(regs1, i + 1, reg, subl)
    ELSE ExtendUserclassLoop(ExtendList(regs, regs[i].ucl, reg.user_class), i + 1, reg, subl)

\* Panel.extend_userclass; subl is the identity of reg's user_class list
extend_userclass(regs, reg, subl) ==
    IF \A i \in 1..Len(reg.user_class) : UserClassEmpty(reg.user_class[i])
    THEN regs
    ELSE ExtendUserclassLoop(regs, 1, reg, subl)

extend_regulation(regs, reg, subl) == extend_userclass(extend_period(regs, reg), reg, subl)

\* Panel.self_merge: sorted() is given its key positionally, which raises
\* TypeError before anything is changed
self_merge(regs) ==
    IF Len(regs) > 1 THEN [raised |-> "TypeError", regs |-> regs]
    ELSE [raised |-> "none", regs |-> regs]

\* the two loops of Panel.merge over self.regulation x other.regulation; both
\* lists have at most one element here (self_merge raised otherwise), so the
\* order given by sorted(key=hash) is the list order
RECURSIVE MergeLoop(_, _, _, _, _)
MergeLoop(regs, others, i, j, hash_other) ==
    IF i > Len(regs) THEN [raised |-> "none", regs |-> regs, hash_other |-> hash_other]
    ELSE IF j > Len(others) THEN MergeLoop(regs, others, i + 1, 1, hash_other)
    ELSE LET m == RegulationMerge(regs[i], others[j])
         IN IF m.raised = "ValueError"
            THEN MergeLoop(regs, others, i, j + 1, hash_other)
            ELSE IF m.raised = "RuntimeWarning"
            THEN [raised |-> "RuntimeWarning", regs |-> regs, hash_other |-> hash_other]
            ELSE MergeLoop([regs EXCEPT ![i] = m.reg], others, i, j + 1,
                           hash_other \ {RuleHash(others[j].rule)})

PanelMerge(self, other) ==
    LET s1 == self_merge(self.regulation)
        s2 == self_merge(other.regulation)
    IN IF s1.raised # "none" THEN [raised |-> s1.raised, panel |-> self]
       ELSE IF s2.raised # "none" THEN [raised |-> s2.raised, panel |-> self]
       ELSE LET hash_other == {RuleHash(other.regulation[k].rule) :
                                  k \in 1..Len(other.regulation)}
                l == MergeLoop(self.regulation, other.regulation, 1, 1, hash_other)
                base == Max({self.regulation[k].ucl : k \in 1..Len(self.regulation)} \cup {0})
                kept == SelectSeq(other.regulation,
                                  LAMBDA r : RuleHash(r.rule) \in l.hash_other)
                rest == [k \in 1..Len(kept) |-> [kept[k] EXCEPT !.ucl = @ + base]]
            IN IF l.raised # "none" THEN [raised |-> l.raised, panel |-> self]
               ELSE [raised |-> "none",
                     panel |-> [self EXCEPT !.regulation = l.regs \o rest]]

RegulationHash(r) == <<RuleHash(r.rule), r.user_class, r.periods, r.other_text>>

\* Panel.__hash__: hash of (position, arrow, location, tuple(regulation))
PanelHash(p) ==
    <<p.position, p.arrow, LocationKey(p.location),
      [i \in 1..Len(p.regulation) |-> RegulationHash(p.regulation[i])]>>

\* Panel.__eq__: position, arrow, location and the list of regulations
PanelEq(p, q) ==
    /\ p.position = q.position
    /\ p.arrow = q.arrow
    /\ LocationKey(p.location) = LocationKey(q.location)
    /\ Len(p.regulation) = Len(q.regulation)
    /\ \A i \in 1..Len(p.regulation) : RegulationEq(p.regulation[i], q.regulation[i])

\* UserClass.__hash__ builds tuple(self.permit), a TypeError when permit is None
PanelHashRaises(p) ==
    \E i \in 1..Len(p.regulation) :
        \E k \in 1..Len(p.regulation[i].user_class) :
            p.regulation[i].user_class[k].permit = NonePermit

----------------------------------------------------------------------------
(* Input rows of the ingestion: the joined inventory table *)

Row(gid, nature, exc, duree, jours, vtype, handicap) ==
    [globalid_panneau |-> gid, ObjetPositionSeq |-> 1, RegFleche |-> NA,
     cote_rue_id |-> 1, IdTroncon |-> 1, geometry |-> 0,
     RegNature |-> nature, RegTypeImmo |-> NA, panneau_type |-> NA,
     RegTmpDuree |-> duree, RegVehExcept |-> exc, RegVehType |-> vtype,
     RegVehSRRR |-> NA, RegHandicap |-> handicap,
     RegTmpJours |-> IF jours = NA THEN <<>> ELSE <<jours>>,
     RegTmpHeureDebut |-> <<>>, RegTmpHeureFin |-> <<>>,
     RegTmpExcept |-> "non", RegTmpEcole |-> NA, panneau_mois |-> <<>>,
     panneau_an_jour_debut |-> NoneV, panneau_an_jour_fin |-> NoneV,
     AutreTexte |-> ""]

\* primary sign rows (ObjetType other than "panonceau")
Signs ==
    {Row(g, n, e, NoneV, j, "taxi", "non") :
        g \in 1..MaxIds, n \in {"permission", "interdiction"},
        e \in {"oui", "non"}, j \in {"lundi", "mardi"}}
    \cup {Row(1, "permission", e, 60, "lundi", "taxi", "non") : e \in {"oui", "non"}}
    \cup {Row(1, "permission", e, NoneV, "lundi", "taxi", "oui") : e \in {"oui", "non"}}
    \cup {Row(1, NA, "non", NoneV, "lundi", "taxi", "non")}
    \cup {[Row(1, "permission", "non", NoneV, "lundi", "taxi", "non")
               EXCEPT !.RegTmpHeureDebut = <<9, 0, 0>>]}
    \cup {[Row(2, "permission", "non", NoneV, "lundi", "taxi", "non")
               EXCEPT !.panneau_type = "SRRR"]}

\* sub-placard rows (ObjetType "panonceau") attached to the sign being read:
\* a period-only placard or a user-class-only placard
Placards ==
    {Row(0, NA, e, NoneV, "mercredi", NA, "non") : e \in {"oui", "non"}}
    \cup {Row(0, NA, e, NoneV, NA, "permis", "non") : e \in {"oui", "non"}}

----------------------------------------------------------------------------
(* CurbLR rendering: cygne/core/curblr.py and the to_curblr methods *)

priorityHierarchy ==
    {"no standing", "construction", "temporary restriction", "standing",
     "no parking", "restricted loading", "loading", "restricted parking",
     "paid parking", "parking"}

MANIFEST ==
    [curblrVersion |-> "1.1.0", priorityHierarchy |-> priorityHierarchy,
     timeZone |-> "America/Montreal", currency |-> "CAD"]

\* Rule.to_curblr; a dict is a record whose field keys lists the keys it has
RuleToCurblr(r) ==
    LET activity == (IF r.activity = 0 THEN "no " ELSE "") \o r.type
    IN [keys |-> {"activity", "priorityCategory", "authority"}
                 \cup (IF r.max_stay # NoneV /\ r.max_stay # 0 THEN {"maxStay"} ELSE {}),
        activity |-> activity,
        priorityCategory |-> IF r.reason # "" THEN r.reason ELSE activity,
        maxStay |-> r.max_stay]

\* UserClass.to_curblr
UserClassToCurblr(uc) ==
    IF UserClassEmpty(uc)
    THEN [keys |-> {}, classes |-> <<>>, subclasses |-> <<>>]
    ELSE [keys |-> {"classes", "subclasses"}, classes |-> uc.category,
          subclasses |-> uc.permit]

\* Period.to_curblr; days is always a list, so daysOfWeek is a key of every
\* non-empty period
PeriodToCurblr(p) ==
    LET dates == p.start_date # NoneV /\ p.end_date # NoneV
        hours == p.start_hour # NoneV /\ p.end_hour # NoneV
    IN IF PeriodEmpty(p)
       THEN [keys |-> {}, effectiveDates |-> {}, daysOfWeek |-> <<>>, timesOfDay |-> {}]
       ELSE [keys |-> {"daysOfWeek"} \cup (IF dates THEN {"effectiveDates"} ELSE {})
                      \cup (IF hours THEN {"timesOfDay"} ELSE {}),
             effectiveDates |-> IF dates THEN {<<p.start_date, p.end_date>>} ELSE {},
             daysOfWeek |-> p.days,
             timesOfDay |-> IF hours THEN {<<p.start_hour, p.end_hour>>} ELSE {}]

\* the order of repr(days): "[0, 1]" < "[0]" < "[1]" < "[]"
RECURSIVE ReprLess(_, _)
ReprLess(a, b) ==
    IF b = <<>> THEN a # <<>>
    ELSE IF a = <<>> THEN FALSE
    ELSE IF Head(a) # Head(b) THEN Head(a) < Head(b)
    ELSE ReprLess(Tail(a), Tail(b))

RECURSIVE SortedDays(_)
SortedDays(D) ==
    IF D = {} THEN <<>>
    ELSE LET d == CHOOSE x \in D : \A y \in D \ {x} : ReprLess(x, y)
         IN <<d>> \o SortedDays(D \ {d})

\* the body of the groupby loop of period2curblr: the dict of the first
\* period of the group takes in the lists of the others, key by key
GroupToCurblr(periods_g) ==
    LET curbs == [i \in 1..Len(periods_g) |-> PeriodToCurblr(periods_g[i])]
        others == 2..Len(curbs)
    IN [raised |-> \E j \in others :
                      (curbs[j].keys \ {"daysOfWeek"}) \ curbs[1].keys # {},
        curb |-> [keys |-> curbs[1].keys,
                  daysOfWeek |-> curbs[1].daysOfWeek,
                  effectiveDates |-> UNION {curbs[j].effectiveDates : j \in 1..Len(curbs)},
                  timesOfDay |-> UNION {curbs[j].timesOfDay : j \in 1..Len(curbs)}]]

\* period2curblr: [raised, curblr]; raised is the KeyError of the merge
period2curblr(periods) ==
    LET days == SortedDays({periods[i].days : i \in 1..Len(periods)})
        group(d) == GroupToCurblr(SelectSeq(periods, LAMBDA p : p.days = d))
    IN [raised |-> \E i \in 1..Len(days) : group(days[i]).raised,
        curblr |-> [i \in 1..Len(days) |-> group(days[i]).curb]]

\* Regulation.to_curblr: [raised, curblr]
RegulationToCurblr(regulation) ==
    LET classes == ~(\A i \in 1..Len(regulation.user_class) :
                        UserClassEmpty(regulation.user_class[i]))
        spans == ~(\A i \in 1..Len(regulation.periods) :
                        PeriodEmpty(regulation.periods[i]))
        timeSpans == period2curblr(regulation.periods)
    IN IF spans /\ timeSpans.raised
       THEN [raised |-> TRUE,
             curblr |-> [keys |-> {}, rule |-> RuleToCurblr(regulation.rule),
                         userClasses |-> <<>>, timeSpans |-> <<>>]]
       ELSE [raised |-> FALSE,
             curblr |-> [keys |-> {"rule"}
                                  \cup (IF classes THEN {"userClasses"} ELSE {})
                                  \cup (IF spans THEN {"timeSpans"} ELSE {}),
                         rule |-> RuleToCurblr(regulation.rule),
                         userClasses |-> IF classes
                                         THEN [i \in 1..Len(regulation.user_class) |->
                                                 UserClassToCurblr(regulation.user_class[i])]
                                         ELSE <<>>,
                         timeSpans |-> IF spans THEN timeSpans.curblr ELSE <<>>]]

----------------------------------------------------------------------------
(* cygne/core/inventory.py: PanCollection *)

\* State of an ingestion: pans is the panel map (lists of Panels while rows
\* are read, one Panel per key after __post_init__), keys its insertion order
\* and rows the input table read so far, each sign row with its sub-placards.
\* State of a curb: road is the road of one (street, side), curb the enriched
\* panels of one regulation on it in the order of the panel map, segments and
\* curblr what to_curblr built from them.
\* State of one rendering: regulation is a Regulation, out what its to_curblr
\* gave.
\* State of one call of a function of periods.py or utils.py: call is the
\* function and its arguments, ret what it returned or raised.
\* problems is what check_chains returned.
VARIABLES pc, pans, keys, err, rows, nsubs, smLog, road, curb, segments, curblr,
          problems, regulation, out, call, ret

ingest == <<pc, pans, keys, err, rows, nsubs, smLog>>

street == <<road, curb, segments, curblr, problems>>

render == <<regulation, out, call, ret>>

vars == <<ingest, street, render>>

NoStreet ==
    /\ road = [length |-> 0, traffic_dir |-> UNSET, side |-> RIGHT]
    /\ curb = <<>>
    /\ segments = <<>>
    /\ curblr = <<>>
    /\ problems = <<>>

NoRender ==
    /\ regulation = <<>>
    /\ out = <<>>
    /\ call = <<>>
    /\ ret = <<>>

NoIngest ==
    /\ pans = <<>>
    /\ keys = <<>>
    /\ err = "none"
    /\ rows = <<>>
    /\ nsubs = 0
    /\ smLog = <<>>

RECURSIVE FoldRegulations(_, _, _)
FoldRegulations(regs, little, subl) ==
    IF little = <<>> THEN regs
    ELSE FoldRegulations(extend_regulation(regs, Head(little), subl), Tail(little), subl)

\* the body of the loop over pans.itertuples() in from_inventory: the Panel
\* of the row, extended by the Regulations of each of its sub-placards
RECURSIVE FoldPlacards(_, _)
FoldPlacards(panel, subs) ==
    IF subs = <<>> THEN [raised |-> FALSE, panel |-> panel]
    ELSE LET little == PanelFromInventory(Head(subs))
             subl == 1 + Max({panel.regulation[k].ucl : k \in 1..Len(panel.regulation)})
         IN IF little.raised THEN [raised |-> TRUE, panel |-> panel]
            ELSE FoldPlacards(
                   [panel EXCEPT !.regulation =
                       FoldRegulations(panel.regulation, little.panel.regulation, subl)],
                   Tail(subs))

BuildPanel(pan, subs) ==
    LET p == PanelFromInventory(pan)
    IN IF p.raised THEN p ELSE FoldPlacards(p.panel, subs)

\* from_inventory, one sign row: pans_store[id].append(pan_object)
IngestRow(pan, subs) ==
    /\ pc = "ingest"
    /\ Len(rows) < MaxRows
    /\ nsubs + Len(subs) <= MaxSubs
    /\ LET b == BuildPanel(pan, subs)
           id == pan.globalid_panneau
       IN IF b.raised
          THEN /\ pc' = "error"
               /\ err' = "ValueError"
               /\ UNCHANGED <<pans, keys>>
          ELSE /\ pans' = IF id \in DOMAIN pans
                          THEN [pans EXCEPT ![id].val = Append(@, b.panel)]
                          ELSE pans @@ (id :> [kind |-> "list", val |-> <<b.panel>>])
               /\ keys' = IF id \in DOMAIN pans THEN keys ELSE Append(keys, id)
               /\ UNCHANGED <<pc, err>>
    /\ rows' = Append(rows, [pan |-> pan, subs |-> subs])
    /\ nsubs' = nsubs + Len(subs)
    /\ UNCHANGED <<smLog, street, render>>

\* one key of _merge_pannels_after_inventory: fold panels[1:] into panels[0]
RECURSIVE MergeFold(_, _)
MergeFold(panel, others) ==
    IF others = <<>> THEN [raised |-> "none", panel |-> panel]
    ELSE LET m == PanelMerge(panel, Head(others))
         IN IF m.raised # "none" THEN m ELSE MergeFold(m.panel, Tail(others))

MergedKey(k) == MergeFold(Head(pans[k].val), Tail(pans[k].val))

\* first exception met by _merge_pannels_after_inventory, in key order
RECURSIVE MergeRaised(_)
MergeRaised(ks) ==
    IF ks = <<>> THEN "none"
    ELSE IF MergedKey(Head(ks)).raised # "none" THEN MergedKey(Head(ks)).raised
    ELSE MergeRaised(Tail(ks))

\* _drop_duplicates: the keys to remove, given the hashes seen so far
RECURSIVE ToRemove(_, _, _)
ToRemove(map, ks, panel_hash) ==
    IF ks = <<>> THEN {}
    ELSE LET h == PanelHash(map[Head(ks)].val[1])
         IN IF h \in panel_hash
            THEN {Head(ks)} \cup ToRemove(map, Tail(ks), panel_hash)
            ELSE ToRemove(map, Tail(ks), panel_hash \cup {h})

UnmergedEntry(k) == pans[k]

\* self.pans[panel_id] = panel
MergedEntry(k) == [kind |-> "panel", val |-> <<MergedKey(k).panel>>]

\* PanCollection.__post_init__: _merge_pannels_after_inventory, _drop_duplicates
PostInit ==
    /\ pc = "ingest"
    /\ LET raised == MergeRaised(keys)
           merged == [k \in DOMAIN pans |-> MergedEntry(k)]
           hashRaises == \E k \in DOMAIN pans : PanelHashRaises(merged[k].val[1])
           to_rm == ToRemove(merged, keys, {})
       IN IF raised # "none"
          THEN pc' = "error" /\ err' = raised /\ UNCHANGED <<pans, keys>>
          ELSE IF hashRaises
          THEN pc' = "error" /\ err' = "TypeError" /\ pans' = merged /\ UNCHANGED keys
          ELSE /\ pc' = "done"
               /\ pans' = [k \in DOMAIN pans \ to_rm |-> merged[k]]
               /\ keys' = SelectSeq(keys, LAMBDA k : k \notin to_rm)
               /\ UNCHANGED err
    /\ UNCHANGED <<rows, nsubs, smLog, street, render>>

\* a call of Panel.self_merge on a panel of the map; smLog keeps the id, the
\* exception and the regulations after each call
SelfMergeCall(id) ==
    /\ pc = "done"
    /\ id \in DOMAIN pans
    /\ Len(smLog) < 2
    /\ smLog # <<>> => smLog[1].id = id
    /\ LET r == self_merge(pans[id].val[1].regulation)
       IN /\ pans' = [pans EXCEPT ![id].val[1].regulation = r.regs]
          /\ smLog' = Append(smLog, [id |-> id, raised |-> r.raised, regs |-> r.regs])
    /\ UNCHANGED <<pc, keys, err, rows, nsubs, street, render>>

Init ==
    /\ pc = "ingest"
    /\ NoIngest
    /\ NoStreet
    /\ NoRender

Next ==
    \/ \E pan \in Signs : IngestRow(pan, <<>>)
    \/ \E pan \in Signs : \E sub \in Placards : IngestRow(pan, <<sub>>)
    \/ PostInit
    \/ \E id \in 1..MaxIds : SelfMergeCall(id)

Spec == Init /\ [][Next]_vars

----------------------------------------------------------------------------
(* One (street, side, regulation) group: enrichment, segments, features *)

MaxPanels == 3   \* signs of the regulation on the curb
MaxLen == 3      \* length of the road; abscissas are 0..MaxLen

Inf == 1000000

Min2(a, b) == IF a <= b THEN a ELSE b

Max2(a, b) == IF a <= b THEN b ELSE a

\* road_length - x in floating point, where x is an abscissa or +inf
Mirror(length, x) == IF x = Inf THEN -Inf ELSE length - x

KeptOrder(s) == s

\* list(reversed(s))
Reverse(s) == [i \in 1..Len(s) |-> s[Len(s) + 1 - i]]

ReversedCurb(traffic_dir, side) ==
    traffic_dir = REVERSE_DIR \/ (traffic_dir = BOTH_DIR /\ side = LEFT)

RECURSIVE InsertByLr(_, _)
InsertByLr(p, sorted) ==
    IF sorted = <<>> THEN <<p>>
    ELSE IF Head(sorted).location.linear_reference <= p.location.linear_reference
    THEN <<Head(sorted)>> \o InsertByLr(p, Tail(sorted))
    ELSE <<p>> \o sorted

RECURSIVE SortFrom(_, _)
SortFrom(panels, sorted) ==
    IF panels = <<>> THEN sorted
    ELSE SortFrom(Tail(panels), InsertByLr(Head(panels), sorted))

Unsorted(panels) == panels

\* sorted(panels, key=linear_reference): a stable sort
SortedByLr(panels) == SortFrom(panels, <<>>)

\* the arrow chain as a two-state machine; open_s is NoneV while closed
RECURSIVE SegmentFold(_, _, _, _, _)
SegmentFold(linear_ref, chain, i, open_s, acc) ==
    IF i > Len(chain)
    THEN IF open_s # NoneV THEN Append(acc, <<open_s, Inf>>) ELSE acc
    ELSE IF chain[i] = START
    THEN SegmentFold(linear_ref, chain, i + 1,
                     IF open_s = NoneV THEN linear_ref[i] ELSE open_s, acc)
    ELSE IF chain[i] = END
    THEN IF open_s = NoneV
         THEN SegmentFold(linear_ref, chain, i + 1, NoneV, acc)
         ELSE SegmentFold(linear_ref, chain, i + 1, NoneV,
                          Append(acc, <<open_s, linear_ref[i]>>))
    ELSE IF open_s = NoneV
         THEN SegmentFold(linear_ref, chain, i + 1, linear_ref[i], acc)
         ELSE SegmentFold(linear_ref, chain, i + 1, linear_ref[i],
                          Append(acc, <<open_s, linear_ref[i]>>))

\* cygne.tranform.points_to_line.create_segments
create_segments(linear_ref, chain) == SegmentFold(linear_ref, chain, 1, NoneV, <<>>)

\* cygne.tranform.points_to_line.cut_linestring: the slice of the road
\* between two abscissas, empty when they coincide on the road
cut_linestring(length, x, y) ==
    [from |-> Max2(0, Min2(length, Min2(x, y))),
     to |-> Max2(0, Min2(length, Max2(x, y)))]

LineLength(line) == line.to - line.from

LineEmpty(line) == line.to = line.from

\* PanCollection._create_segment for the panels of one regulation
_create_segment(panels) ==
    LET panels_g == SortedByLr(panels)
        lrs == [i \in 1..Len(panels_g) |-> panels_g[i].location.linear_reference]
        arrows == [i \in 1..Len(panels_g) |-> panels_g[i].arrow]
        panel_id == [i \in 1..Len(panels_g) |-> panels_g[i].unique_id]
        first == panels_g[1].location
        reversed == ReversedCurb(first.traffic_dir, first.side_of_street)
        linear_ref == IF reversed
                      THEN [i \in 1..Len(lrs) |-> first.road_length - Reverse(lrs)[i]]
                      ELSE lrs
        chain == IF reversed THEN Reverse(arrows) ELSE arrows
    IN [segments |-> create_segments(linear_ref, chain), panel_id |-> panel_id]

\* PanCollection._create_lines_geom for one [regulation, segments, panel_id]
\* entry: the cut of each break; store is the panel map, panels the group
GroupLines(store, panels) ==
    LET arr == _create_segment(panels)
        first == store[arr.panel_id[1]].location
        reversed == ReversedCurb(first.traffic_dir, first.side_of_street)
        breaks == IF reversed
                  THEN [i \in 1..Len(arr.segments) |->
                          <<Mirror(first.road_length, arr.segments[i][1]),
                            Mirror(first.road_length, arr.segments[i][2])>>]
                  ELSE arr.segments
    IN [segments |-> arr.segments,
        panel_id |-> arr.panel_id,
        lines |-> [i \in 1..Len(breaks) |->
                     cut_linestring(first.road_length, breaks[i][1], breaks[i][2])]]

\* PanCollection._create_lines_geom when the map holds one group
_create_lines_geom(panels) == GroupLines(panels, panels)

\* reg.to_curblr() of to_curblr, for each Regulation of the group's list
RECURSIVE RegulationsToCurblr(_)
RegulationsToCurblr(regs) ==
    IF regs = <<>> THEN [raised |-> FALSE, curblr |-> <<>>]
    ELSE LET r == RegulationToCurblr(Head(regs))
             rest == RegulationsToCurblr(Tail(regs))
         IN [raised |-> r.raised \/ rest.raised,
             curblr |-> <<r.curblr>> \o rest.curblr]

\* the loop of to_curblr over zip(lr_breaks, lines); i is the objectId counter
RECURSIVE FeatureLoop(_, _, _, _, _, _)
FeatureLoop(panels, arr, regs, k, i, acc) ==
    IF k > Len(arr.segments) THEN acc
    ELSE LET lr_break == arr.segments[k]
             line == arr.lines[k]
             first == panels[arr.panel_id[1]].location
             reversed == ReversedCurb(first.traffic_dir, first.side_of_street)
             at(p) == IF reversed
                      THEN first.road_length - panels[p].location.linear_reference
                      ELSE panels[p].location.linear_reference
             pan_id == SelectSeq(arr.panel_id,
                                 LAMBDA p : lr_break[1] <= at(p) /\ at(p) <= lr_break[2])
         IN IF LineEmpty(line)
            THEN FeatureLoop(panels, arr, regs, k + 1, i, acc)
            ELSE FeatureLoop(panels, arr, regs, k + 1, i + 1,
                    Append(acc,
                       [location |->
                          [shstRefId |-> first.street_id,
                           shstLocationStart |-> lr_break[1],
                           shstLocationEnd |-> IF lr_break[2] = Inf THEN LineLength(line)
                                               ELSE lr_break[2],
                           sideOfStreet |-> first.side_of_street,
                           objectId |-> i,
                           derivedFrom |-> pan_id],
                        regulations |-> regs,
                        geometry |-> line]))

\* the sign rows of the street: one regulation, once without and once with
\* a sign type (panneau_type)
StreetSigns ==
    {Row(1, "interdiction", "non", NoneV, "lundi", "taxi", "non"),
     [Row(1, "interdiction", "non", NoneV, NA, NA, "non") EXCEPT !.panneau_type = "SRRR"]}

\* a sign row of the group's regulation is read: Panel.from_inventory gives
\* its panel; the row's point projects on the road at abscissa point
AddSign(pan, point, fleche) ==
    LET row == [pan EXCEPT !.globalid_panneau = Len(curb) + 1,
                           !.geometry = point,
                           !.RegFleche = fleche,
                           !.cote_rue_id = IF road.side = RIGHT THEN 1 ELSE 2]
        panel == PanelFromInventory(row).panel
    IN /\ pc = "signs"
       /\ Len(curb) < MaxPanels
       /\ curb # <<>> => panel.regulation = curb[1].regulation
       /\ curb' = Append(curb, panel)
       /\ UNCHANGED <<ingest, road, segments, curblr, problems, render>>

\* PanCollection.enrich_with_roadnetwork
Enrich ==
    /\ pc = "signs"
    /\ curb # <<>>
    /\ curb' = [i \in 1..Len(curb) |->
                  [curb[i] EXCEPT !.location.linear_reference = curb[i].location.location,
                                  !.location.street_id = 1,
                                  !.location.traffic_dir = road.traffic_dir,
                                  !.location.road_length = road.length]]
    /\ pc' = "enriched"
    /\ UNCHANGED <<pans, keys, err, rows, nsubs, smLog, road, segments, curblr, problems, render>>

\* PanCollection.to_curblr
ToCurblr ==
    /\ pc = "enriched"
    /\ LET arr == _create_lines_geom(curb)
           regs == RegulationsToCurblr(curb[arr.panel_id[1]].regulation)
       IN IF regs.raised
          THEN /\ pc' = "error"
               /\ err' = "KeyError"
               /\ UNCHANGED <<segments, curblr>>
          ELSE /\ pc' = "emitted"
               /\ segments' = arr.segments
               /\ curblr' = [manifest |-> MANIFEST,
                             features |-> FeatureLoop(curb, arr, regs.curblr, 1, 0, <<>>)]
               /\ UNCHANGED err
    /\ UNCHANGED <<pans, keys, rows, nsubs, smLog, road, curb, problems, render>>

\* the positions of the chain that rules 3 and 4 mark problematic: a START
\* met while open, an END met while closed
RECURSIVE ProblemFold(_, _, _, _)
ProblemFold(chain, i, open, acc) ==
    IF i > Len(chain) THEN acc
    ELSE IF chain[i] = START
    THEN ProblemFold(chain, i + 1, TRUE, IF open THEN Append(acc, i) ELSE acc)
    ELSE IF chain[i] = END
    THEN ProblemFold(chain, i + 1, FALSE, IF open THEN acc ELSE Append(acc, i))
    ELSE ProblemFold(chain, i + 1, TRUE, acc)

\* check_chains: the ids of the panels at the problematic positions of the
\* chain, which is read as _create_segment reads it
check_chains(panels) ==
    LET panels_g == SortedByLr(panels)
        first == panels_g[1].location
        reversed == ReversedCurb(first.traffic_dir, first.side_of_street)
        ordered == IF reversed THEN Reverse(panels_g) ELSE panels_g
        marked == ProblemFold([i \in 1..Len(ordered) |-> ordered[i].arrow], 1, FALSE, <<>>)
    IN [k \in 1..Len(marked) |-> ordered[marked[k]].unique_id]

\* the chain self-test, after the document was built
CheckChains ==
    /\ pc = "emitted"
    /\ problems' = check_chains(curb)
    /\ pc' = "checked"
    /\ UNCHANGED <<pans, keys, err, rows, nsubs, smLog, road, curb, segments, curblr, render>>

InitStreet ==
    /\ pc = "signs"
    /\ NoIngest
    /\ NoRender
    /\ road \in [length : {MaxLen},
                 traffic_dir : {DIGITALIZATION_DIR, REVERSE_DIR, BOTH_DIR},
                 side : {RIGHT, LEFT}]
    /\ curb = <<>>
    /\ segments = <<>>
    /\ curblr = <<>>
    /\ problems = <<>>

NextStreet ==
    \/ \E pan \in StreetSigns : \E point \in 0..MaxLen :
          \E fleche \in {"vers rue", "vers trottoir", NA} : AddSign(pan, point, fleche)
    \/ Enrich
    \/ ToCurblr
    \/ CheckChains

SpecStreet == InitStreet /\ [][NextStreet]_vars

----------------------------------------------------------------------------
(* Several streets, sides and regulations: the order of the features *)

MaxSigns == 2   \* panels of the collection

SomePoints == {0, 1}

\* the keys of the curbs dict of group_pannels_by_street_and_side, in the
\* order of their insertion: that of the first panel of each in the map
RECURSIVE CurbKeys(_, _)
CurbKeys(panels, acc) ==
    IF panels = <<>> THEN acc
    ELSE LET key == <<Head(panels).location.street_id, Head(panels).location.side_of_street>>
         IN CurbKeys(Tail(panels),
                     IF key \in Range(acc) THEN acc ELSE Append(acc, key))

\* group_pannels_by_street_and_side: the panels of each key, sorted by
\* linear reference
group_pannels_by_street_and_side(panels) ==
    LET ks == CurbKeys(panels, <<>>)
    IN [k \in 1..Len(ks) |->
          SortedByLr(SelectSeq(panels,
              LAMBDA p : <<p.location.street_id, p.location.side_of_street>> = ks[k]))]

\* the order of repr(panel.regulation) on the regulations of StreetSigns:
\* the two strings first differ in the rule's reason, 'SRRR' < 'parking'
ReprRank(panel) == IF panel.regulation[1].rule.reason = "SRRR" THEN 0 ELSE 1

RECURSIVE InsertByRepr(_, _)
InsertByRepr(p, sorted) ==
    IF sorted = <<>> THEN <<p>>
    ELSE IF ReprRank(Head(sorted)) <= ReprRank(p)
    THEN <<Head(sorted)>> \o InsertByRepr(p, Tail(sorted))
    ELSE <<p>> \o sorted

\* sorted(panels, key=lambda x: repr(x.regulation)): a stable sort
RECURSIVE SortedByRepr(_, _)
SortedByRepr(panels, sorted) ==
    IF panels = <<>> THEN sorted
    ELSE SortedByRepr(Tail(panels), InsertByRepr(Head(panels), sorted))

\* itertools.groupby(..., lambda x: x.regulation): the runs of consecutive
\* panels with equal regulations
RECURSIVE RegulationRuns(_, _)
RegulationRuns(panels, acc) ==
    IF panels = <<>> THEN acc
    ELSE IF acc # <<>> /\ Last(acc)[1].regulation = Head(panels).regulation
    THEN RegulationRuns(Tail(panels),
                        [acc EXCEPT ![Len(acc)] = Append(@, Head(panels))])
    ELSE RegulationRuns(Tail(panels), Append(acc, <<Head(panels)>>))

\* the [regulation, segments, panel_id] entries of _create_segment as the
\* loops of to_curblr meet them: curb after curb, run after run
CurbRuns(panels) ==
    LET curbs == group_pannels_by_street_and_side(panels)
    IN Concat([k \in 1..Len(curbs) |->
                 RegulationRuns(SortedByRepr(curbs[k], <<>>), <<>>)])

\* the two loops of to_curblr; the objectId counter i goes on from one
\* entry to the next
RECURSIVE CurbFeatures(_, _, _, _)
CurbFeatures(panels, runs, r, acc) ==
    IF r > Len(runs) THEN [raised |-> FALSE, features |-> acc]
    ELSE LET arr == GroupLines(panels, runs[r])
             regs == RegulationsToCurblr(panels[arr.panel_id[1]].regulation)
         IN IF regs.raised THEN [raised |-> TRUE, features |-> acc]
            ELSE CurbFeatures(panels, runs, r + 1,
                              FeatureLoop(panels, arr, regs.curblr, 1, Len(acc), acc))

\* a sign row is read: its panel is stored under the next id of the map
AddSignOn(pan, street_id, side, point, fleche) ==
    LET row == [pan EXCEPT !.globalid_panneau = Len(curb) + 1,
                           !.geometry = point,
                           !.RegFleche = fleche,
                           !.IdTroncon = street_id,
                           !.cote_rue_id = IF side = RIGHT THEN 1 ELSE 2]
    IN /\ pc = "signs"
       /\ Len(curb) < MaxSigns
       /\ curb' = Append(curb, PanelFromInventory(row).panel)
       /\ UNCHANGED <<ingest, road, segments, curblr, problems, render>>

\* roads.loc[street_id], and on KeyError the nearest road of the table: the
\* roads of the table lie on one another, the nearest is the first of them
RoadOf(street_id) ==
    IF street_id \in road.ids THEN street_id
    ELSE CHOOSE r \in road.ids : \A o \in road.ids : r <= o

\* PanCollection.enrich_with_roadnetwork: road.ids are the ID_TRC of the
\* road table, every road has the length and the direction of road
EnrichRoads ==
    /\ pc = "signs"
    /\ curb # <<>>
    /\ curb' = [i \in 1..Len(curb) |->
                  [curb[i] EXCEPT !.location.linear_reference = curb[i].location.location,
                                  !.location.street_id = RoadOf(curb[i].location.street_id),
                                  !.location.traffic_dir = road.traffic_dir,
                                  !.location.road_length = road.length]]
    /\ pc' = "enriched"
    /\ UNCHANGED <<pans, keys, err, rows, nsubs, smLog, road, segments, curblr, problems, render>>

\* PanCollection.to_curblr on the whole collection
ToCurblrAll ==
    /\ pc = "enriched"
    /\ LET res == CurbFeatures(curb, CurbRuns(curb), 1, <<>>)
       IN IF res.raised
          THEN /\ pc' = "error"
               /\ err' = "KeyError"
               /\ UNCHANGED curblr
          ELSE /\ pc' = "emitted"
               /\ curblr' = [manifest |-> MANIFEST, features |-> res.features]
               /\ UNCHANGED err
    /\ UNCHANGED <<pans, keys, rows, nsubs, smLog, road, curb, segments, problems, render>>

InitCurbs ==
    /\ pc = "signs"
    /\ NoIngest
    /\ NoRender
    /\ road \in [length : {MaxLen}, traffic_dir : {DIGITALIZATION_DIR, BOTH_DIR},
                 side : {RIGHT}, ids : {{1, 2}, {1}}]
    /\ curb = <<>>
    /\ segments = <<>>
    /\ curblr = <<>>
    /\ problems = <<>>

NextCurbs ==
    \/ \E pan \in StreetSigns : \E street_id \in 1..2 : \E side \in {RIGHT, LEFT} :
          \E point \in SomePoints : \E fleche \in {"vers rue", NA} :
             AddSignOn(pan, street_id, side, point, fleche)
    \/ EnrichRoads
    \/ ToCurblrAll

SpecCurbs == InitCurbs /\ [][NextCurbs]_vars

----------------------------------------------------------------------------
(* Regulation.to_curblr on its own *)

MaxClasses == 2   \* user classes of the regulation
MaxPeriods == 2   \* periods of the regulation

SeqsUpTo(S, n) == UNION {[1..k -> S] : k \in 1..n}

\* an empty class, a vehicle class, the class that RegHandicap adds
SomeClasses ==
    {UserClass(FALSE, <<>>, <<>>), UserClass(FALSE, <<"taxi">>, <<>>),
     UserClass(TRUE, <<"handicap">>, NonePermit)}

\* an empty period, days only, days and hours, hours only, days and dates
SomePeriods ==
    {Period(NoneV, NoneV, <<>>, NoneV, NoneV), Period(NoneV, NoneV, <<0>>, NoneV, NoneV),
     Period(800, 1000, <<0>>, NoneV, NoneV), Period(800, 1000, <<>>, NoneV, NoneV),
     Period(NoneV, NoneV, <<0>>, Date(1, 1), Date(6, 30))}

InitRegulation ==
    /\ pc = "regulation"
    /\ NoIngest
    /\ NoStreet
    /\ \E user_class \in SeqsUpTo(SomeClasses, MaxClasses) :
          \E periods \in SeqsUpTo(SomePeriods, MaxPeriods) :
             regulation = Regulation(Rule(INTERDICTION, "parking", "parking", 1, NoneV, FALSE),
                                     user_class, periods, "", 1)
    /\ out = <<>>
    /\ call = <<>>
    /\ ret = <<>>

\* Regulation.to_curblr
ToCurblrRegulation ==
    /\ pc = "regulation"
    /\ LET r == RegulationToCurblr(regulation)
       IN /\ out' = r.curblr
          /\ pc' = IF r.raised THEN "error" ELSE "rendered"
          /\ err' = IF r.raised THEN "KeyError" ELSE err
    /\ UNCHANGED <<pans, keys, rows, nsubs, smLog, street, regulation, call, ret>>

NextRegulation == ToCurblrRegulation

SpecRegulation == InitRegulation /\ [][NextRegulation]_vars

----------------------------------------------------------------------------
(* The functions of periods.py and utils.py on their own *)

MaxTerms == 3    \* day names in one day expression
MaxMonths == 3   \* months in one list of months

\* the three-letter notations that the docstring of parse_days lists
ABBREVIATIONS == <<"lun", "mar", "mer", "jeu", "ven", "sam", "dim">>

\* 'a-b-c' or 'a+b+c' for the names a, b, c
Joined(names, op) ==
    [i \in 1..(2 * Len(names) - 1) |-> IF i % 2 = 1 THEN names[(i + 1) \div 2] ELSE op]

DayExpressions ==
    {Joined(names, op) :
        names \in SeqsUpTo(Range(DAYS) \cup Range(ABBREVIATIONS), MaxTerms),
        op \in {"-", "+"}}

\* January, February, March, June, December
SomeMonths == {0, 1, 2, 5, 11}

SomeDays == {1, 15, 28, 29, 30, 31}

RECURSIVE Ascending(_)
Ascending(S) ==
    IF S = {} THEN <<>>
    ELSE LET m == CHOOSE x \in S : \A y \in S : x <= y
         IN <<m>> \o Ascending(S \ {m})

MonthLists == {Ascending(S) : S \in {T \in SUBSET SomeMonths : Cardinality(T) <= MaxMonths}}

\* rows of the period table: with and without hours, days, months, the
\* school flag and the exception flag
PeriodRows ==
    {[Row(1, "interdiction", "non", NoneV, NA, NA, "non") EXCEPT
         !.RegTmpExcept = e, !.RegTmpEcole = ecole,
         !.RegTmpHeureDebut = h[1], !.RegTmpHeureFin = h[2],
         !.RegTmpJours = j,
         !.panneau_mois = m[1], !.panneau_an_jour_debut = m[2],
         !.panneau_an_jour_fin = m[3]] :
        e \in {"oui", "non"}, ecole \in {NA, "oui"},
        h \in {<< <<>>, <<>> >>, << <<9, 0, 0>>, <<17, 0, 0>> >>,
               << <<0, 0, 0>>, <<17, 0, 0>> >>, << <<9, 0, 0>>, <<>> >>},
        j \in {<<>>, <<"lundi", "-", "vendredi">>, <<"samedi">>, <<"lun", "-", "ven">>},
        m \in {<< <<>>, NoneV, NoneV >>, << <<"janvier", ",", "mars">>, 1, 31 >>,
               << <<"juin">>, 15, 31 >>, << <<"mai">>, NoneV, NoneV >>}}

\* well-formed Periods: with and without hours, days and dates
UpdatePeriods ==
    {Period(h[1], h[2], d, dt[1], dt[2]) :
        h \in {<<NoneV, NoneV>>, <<800, 1000>>, <<0, 900>>},
        d \in {<<>>, <<0>>},
        dt \in {<<NoneV, NoneV>>, <<Date(1, 1), Date(6, 30)>>}}

\* rules of every activity, with and without max_stay and payment
SomeRules ==
    {Rule(a, "parking", "parking", 1, m, pay) :
        a \in {PERMISSION, INTERDICTION, -1}, m \in {NoneV, 60}, pay \in BOOLEAN}

\* the Panels of the sign rows of id 1 that Panel.from_inventory accepts
SomePanels ==
    {PanelFromInventory(pan).panel :
        pan \in {row \in Signs : row.globalid_panneau = 1 /\ ~PanelFromInventory(row).raised}}

\* an empty Period and Periods with hours, days or dates only
ExtendPeriods ==
    {Period(NoneV, NoneV, <<>>, NoneV, NoneV), Period(800, 1000, <<>>, NoneV, NoneV),
     Period(NoneV, NoneV, <<0>>, NoneV, NoneV),
     Period(NoneV, NoneV, <<>>, Date(1, 1), Date(6, 30))}

\* a Regulation of the panel or of the sub-placard with the given periods
WithPeriods(periods) ==
    Regulation(Rule(INTERDICTION, "parking", "parking", 1, NoneV, FALSE),
               <<UserClass(FALSE, <<>>, <<>>)>>, periods, "", 1)

\* the Regulations that Regulation.from_inventory gives for the sub-placard rows
PlacardRegulations ==
    UNION {Range(RegulationFromInventory(sub).regs) : sub \in Placards}

Calls ==
    {[fn |-> "parse_days", day |-> day] : day \in DayExpressions}
    \cup {[fn |-> "Panel.extend_userclass", regs |-> panel.regulation, reg |-> reg] :
             panel \in SomePanels, reg \in PlacardRegulations}
    \cup {[fn |-> "Panel.extend_period", regs |-> <<WithPeriods(a)>>, reg |-> WithPeriods(b)] :
             a \in SeqsUpTo(ExtendPeriods, MaxPeriods),
             b \in SeqsUpTo(ExtendPeriods, MaxPeriods) \ {<<>>}}
    \cup {[fn |-> "Panel.merge", self |-> a, other |-> b] :
             a \in SomePanels, b \in SomePanels}
    \cup {[fn |-> "Rule.exempt", rule |-> rule] : rule \in SomeRules}
    \cup {[fn |-> "Period.update", self |-> a, other |-> b] :
             a \in UpdatePeriods, b \in UpdatePeriods}
    \cup {[fn |-> "from_inventory_to_list_date", start_day |-> a, end_day |-> b,
           months |-> months] : a \in SomeDays, b \in SomeDays, months \in MonthLists}
    \cup {[fn |-> "Period.from_inventory", pan |-> pan] : pan \in PeriodRows}

InitCall ==
    /\ pc = "call"
    /\ NoIngest
    /\ NoStreet
    /\ regulation = <<>>
    /\ out = <<>>
    /\ call \in Calls
    /\ ret = <<>>

\* parse_days
CallParseDays ==
    /\ pc = "call"
    /\ call.fn = "parse_days"
    /\ ret' = parse_days(call.day)
    /\ pc' = IF ret'.raised = "none" THEN "returned" ELSE "raised"
    /\ UNCHANGED <<pans, keys, err, rows, nsubs, smLog, street, regulation, out, call>>

\* from_inventory_to_list_date
CallFromInventoryToListDate ==
    /\ pc = "call"
    /\ call.fn = "from_inventory_to_list_date"
    /\ ret' = from_inventory_to_list_date(call.start_day, call.end_day, call.months)
    /\ pc' = IF ret'.raised = "none" THEN "returned" ELSE "raised"
    /\ UNCHANGED <<pans, keys, err, rows, nsubs, smLog, street, regulation, out, call>>

\* Period.from_inventory
CallPeriodFromInventory ==
    /\ pc = "call"
    /\ call.fn = "Period.from_inventory"
    /\ ret' = PeriodFromInventory(call.pan)
    /\ pc' = IF ret'.raised THEN "raised" ELSE "returned"
    /\ UNCHANGED <<pans, keys, err, rows, nsubs, smLog, street, regulation, out, call>>

\* Period.update: self after the call
CallPeriodUpdate ==
    /\ pc = "call"
    /\ call.fn = "Period.update"
    /\ ret' = [raised |-> "none", period |-> PeriodUpdate(call.self, call.other)]
    /\ pc' = "returned"
    /\ UNCHANGED <<pans, keys, err, rows, nsubs, smLog, street, regulation, out, call>>

\* Rule.exempt
CallRuleExempt ==
    /\ pc = "call"
    /\ call.fn = "Rule.exempt"
    /\ ret' = RuleExempt(call.rule)
    /\ pc' = "returned"
    /\ UNCHANGED <<pans, keys, err, rows, nsubs, smLog, street, regulation, out, call>>

\* Panel.merge: self after the call, or the exception
CallPanelMerge ==
    /\ pc = "call"
    /\ call.fn = "Panel.merge"
    /\ ret' = PanelMerge(call.self, call.other)
    /\ pc' = IF ret'.raised = "none" THEN "returned" ELSE "raised"
    /\ UNCHANGED <<pans, keys, err, rows, nsubs, smLog, street, regulation, out, call>>

\* Panel.extend_period: self.regulation after the call
CallExtendPeriod ==
    /\ pc = "call"
    /\ call.fn = "Panel.extend_period"
    /\ ret' = [raised |-> "none", regs |-> extend_period(call.regs, call.reg)]
    /\ pc' = "returned"
    /\ UNCHANGED <<pans, keys, err, rows, nsubs, smLog, street, regulation, out, call>>

\* Panel.extend_userclass: self.regulation after the call
CallExtendUserclass ==
    /\ pc = "call"
    /\ call.fn = "Panel.extend_userclass"
    /\ ret' = [raised |-> "none",
               regs |-> extend_userclass(call.regs, call.reg,
                           1 + Max({call.regs[k].ucl : k \in 1..Len(call.regs)}))]
    /\ pc' = "returned"
    /\ UNCHANGED <<pans, keys, err, rows, nsubs, smLog, street, regulation, out, call>>

NextCall ==
    \/ CallParseDays
    \/ CallExtendUserclass
    \/ CallExtendPeriod
    \/ CallPanelMerge
    \/ CallRuleExempt
    \/ CallPeriodUpdate
    \/ CallFromInventoryToListDate
    \/ CallPeriodFromInventory

SpecCall == InitCall /\ [][NextCall]_vars

----------------------------------------------------------------------------
(* Properties of the ingestion *)

\* every Regulation held by the panel map, before or after the merge
StoredRegulations ==
    UNION {UNION {Range(pans[k].val[i].regulation) : i \in 1..Len(pans[k].val)} :
             k \in DOMAIN pans}

Homogeneous(reg) ==
    \A i, j \in 1..Len(reg.user_class) :
        reg.user_class[i].is_except = reg.user_class[j].is_except

\* C1: all entries of the user_class list of every Regulation built by
\* from_inventory, extend_regulation, Regulation.merge and Panel.merge have
\* the same is_except
C1_ExceptionHomogeneity == \A reg \in StoredRegulations : Homogeneous(reg)

DistinctRules(panel) ==
    \A i, j \in 1..Len(panel.regulation) :
        i # j => ~RuleEq(panel.regulation[i].rule, panel.regulation[j].rule)

\* C2: after ingestion no Panel of the map holds two Regulations with equal Rules
C2_RuleUniqueness ==
    pc = "done" => \A k \in DOMAIN pans : DistinctRules(pans[k].val[1])

\* C5: after from_inventory every key of the panel map is associated with
\* exactly one Panel, not a list, and that Panel's unique_id is the key
C5_StableIdUniqueness ==
    pc = "done" =>
        \A k \in DOMAIN pans :
            /\ pans[k].kind = "panel"
            /\ Len(pans[k].val) = 1
            /\ pans[k].val[1].unique_id = k
            /\ \A k2 \in DOMAIN pans : k2 # k => pans[k2].val[1].unique_id # k

\* two rows of one id were folded into one Panel and a second id is in the map
C5_Witness ==
    /\ pc = "done"
    /\ \E k \in DOMAIN pans :
          /\ Cardinality({i \in 1..Len(rows) : rows[i].pan.globalid_panneau = k}) >= 2
          /\ Len(pans[k].val[1].regulation[1].periods) >= 2

RowRules(pan) ==
    LET regs == RegulationFromInventory(pan).regs
    IN {regs[i].rule : i \in 1..Len(regs)}

RowPeriods(pan) == PeriodFromInventory(pan).periods

\* the rows read share one id, have no sub-placard, yield equal Rules and
\* pairwise different periods
SameSignRows ==
    /\ Len(rows) >= 2
    /\ \A i, j \in 1..Len(rows) :
          /\ rows[i].subs = <<>>
          /\ ~PanelFromInventory(rows[i].pan).raised
          /\ rows[i].pan.globalid_panneau = rows[j].pan.globalid_panneau
          /\ \A a \in RowRules(rows[i].pan), b \in RowRules(rows[j].pan) : RuleEq(a, b)
          /\ i # j => RowPeriods(rows[i].pan) # RowPeriods(rows[j].pan)

\* C9: rows sharing one globalid_panneau with equal Rules and different
\* periods end as one Panel holding one Regulation with every row's periods
C9_SameSignRowsMerged ==
    (pc # "ingest" /\ SameSignRows) =>
        /\ pc = "done"
        /\ LET id == rows[1].pan.globalid_panneau
           IN /\ DOMAIN pans = {id}
              /\ Len(pans[id].val[1].regulation) = 1
              /\ \A i \in 1..Len(rows) :
                    Range(RowPeriods(rows[i].pan))
                        \subseteq Range(pans[id].val[1].regulation[1].periods)

\* the row read at position i raises in Panel.from_inventory
Malformed(i) == BuildPanel(rows[i].pan, rows[i].subs).raised

\* C15: a malformed sign row is skipped: the ingestion goes on after it and
\* ends with the panels of the well-formed rows in the panel map
C15_MalformedRowSkipped ==
    \A i \in 1..Len(rows) :
        Malformed(i) =>
            /\ pc # "error"
            /\ \A j \in 1..Len(rows) :
                  ~Malformed(j) => rows[j].pan.globalid_panneau \in DOMAIN pans

\* two rows of one id without sub-placard, each giving one Regulation, and
\* the two Regulations are equal
EqualRegulationRows ==
    /\ Len(rows) = 2
    /\ \A i \in 1..2 : rows[i].subs = <<>> /\ ~Malformed(i)
    /\ rows[1].pan.globalid_panneau = rows[2].pan.globalid_panneau
    /\ LET r1 == RegulationFromInventory(rows[1].pan).regs
           r2 == RegulationFromInventory(rows[2].pan).regs
       IN Len(r1) = 1 /\ Len(r2) = 1 /\ RegulationEq(r1[1], r2[1])

\* C16: when Panel.merge meets a regulation of the other panel equal to one of
\* its own, the merge and the ingestion complete and the regulation keeps its
\* periods and user classes
C16_DuplicateMergeNonFatal ==
    (pc # "ingest" /\ EqualRegulationRows) =>
        /\ pc = "done"
        /\ LET id == rows[1].pan.globalid_panneau
               reg == RegulationFromInventory(rows[1].pan).regs[1]
           IN /\ id \in DOMAIN pans
              /\ Len(pans[id].val[1].regulation) = 1
              /\ pans[id].val[1].regulation[1].periods = reg.periods
              /\ pans[id].val[1].regulation[1].user_class = reg.user_class

----------------------------------------------------------------------------
(* Properties of the segments and features of a curb *)

CurbAt(panel) ==
    IF ReversedCurb(road.traffic_dir, road.side)
    THEN road.length - panel.location.linear_reference
    ELSE panel.location.linear_reference

\* the intervals of the segment builder, +inf resolved to the road length
Resolved == [i \in 1..Len(segments) |->
               <<segments[i][1],
                 IF segments[i][2] = Inf THEN road.length ELSE segments[i][2]>>]

NonOverlapping ==
    \A i, j \in 1..Len(Resolved) :
        i # j => Resolved[i][2] <= Resolved[j][1] \/ Resolved[j][2] <= Resolved[i][1]

Emitted ==
    [i \in 1..Len(curblr.features) |->
        <<curblr.features[i].location.shstLocationStart,
          curblr.features[i].location.shstLocationEnd>>]

\* the curb-frame intervals that have a feature: those of positive length
Kept == SelectSeq(Resolved, LAMBDA seg : seg[1] # seg[2])

\* C4: on a reversed curb every emitted feature has
\* 0 <= shstLocationStart <= shstLocationEnd <= road_length and the emitted
\* pair is the mirror (road_length - e, road_length - s) of the curb-frame
\* interval [s, e] of the chain
C4_DirectionRoundTrip ==
    (pc = "emitted" /\ ReversedCurb(road.traffic_dir, road.side)) =>
        /\ \A i \in 1..Len(Emitted) :
              0 <= Emitted[i][1] /\ Emitted[i][1] <= Emitted[i][2]
                                 /\ Emitted[i][2] <= road.length
        /\ Emitted = [i \in 1..Len(Kept) |->
                        <<road.length - Kept[i][2], road.length - Kept[i][1]>>]

\* C7: every activity and every priorityCategory of the emitted regulations
\* is an element of the manifest's priorityHierarchy
C7_ManifestCoverage ==
    pc = "emitted" =>
        \A i \in 1..Len(curblr.features) :
            \A j \in 1..Len(curblr.features[i].regulations) :
                LET rule == curblr.features[i].regulations[j].rule
                IN /\ rule.activity \in curblr.manifest.priorityHierarchy
                   /\ rule.priorityCategory \in curblr.manifest.priorityHierarchy

StartNoArrowEnd(i, j, k) ==
    /\ Len(curb) = 3
    /\ curb[i].arrow = START /\ curb[j].arrow = NO_ARROW /\ curb[k].arrow = END
    /\ CurbAt(curb[i]) < CurbAt(curb[j])
    /\ CurbAt(curb[j]) < CurbAt(curb[k])

\* C10: panels START, NO_ARROW, END of one regulation at curb abscissas
\* s1 < s2 < s3 yield exactly the intervals [s1, s2] and [s2, s3]
C10_NoArrowSplits ==
    pc = "emitted" =>
        \A i, j, k \in 1..Len(curb) :
            StartNoArrowEnd(i, j, k) =>
                segments = << <<CurbAt(curb[i]), CurbAt(curb[j])>>,
                              <<CurbAt(curb[j]), CurbAt(curb[k])>> >>

\* such a chain was segmented on a reversed curb, its panels read in an
\* order other than the one along the curb
C10_Witness ==
    /\ pc = "emitted"
    /\ ReversedCurb(road.traffic_dir, road.side)
    /\ StartNoArrowEnd(2, 3, 1)
    /\ Len(segments) = 2

\* panels a and b are START at abscissas s1 < s2 of the curb, any other
\* panel is an END beyond s2
DoubleStart(a, b) ==
    /\ curb[a].arrow = START /\ curb[b].arrow = START
    /\ CurbAt(curb[a]) < CurbAt(curb[b])
    /\ \A c \in 1..Len(curb) \ {a, b} :
          curb[c].arrow = END /\ CurbAt(curb[b]) < CurbAt(curb[c])

\* C11: a START met while a window is open keeps the abscissa of the first
\* START, its panel id is returned by check_chains, and the window gives
\* exactly one interval, starting at the first START
C11_DoubleStart ==
    pc = "checked" =>
        \A a, b \in 1..Len(curb) :
            DoubleStart(a, b) =>
                /\ curb[b].unique_id \in Range(problems)
                /\ curb[a].unique_id \notin Range(problems)
                /\ Len(segments) = 1
                /\ segments[1][1] = CurbAt(curb[a])

\* two STARTs and an END beyond them, read in an order other than the one
\* along a reversed curb
C11_Witness ==
    /\ pc = "checked"
    /\ ReversedCurb(road.traffic_dir, road.side)
    /\ Len(curb) = 3
    /\ DoubleStart(2, 1)

\* a window of the chain is still open at its end
OpenWindow(i) == segments[i][2] = Inf /\ segments[i][1] < road.length

\* C18: a window opened at s and still open when the chain ends gives a
\* feature with shstLocationStart = s and shstLocationEnd = road_length
C18_OpenWindowEnd ==
    pc = "emitted" =>
        \A i \in 1..Len(segments) :
            OpenWindow(i) =>
                \E k \in 1..Len(curblr.features) :
                    /\ curblr.features[k].location.shstLocationStart = segments[i][1]
                    /\ curblr.features[k].location.shstLocationEnd = road.length

\* C19: the geometry of every emitted feature is the cut of the road between
\* the emitted shstLocationStart and shstLocationEnd
C19_GeometryOfLocation ==
    pc = "emitted" =>
        \A k \in 1..Len(curblr.features) :
            curblr.features[k].geometry =
                cut_linestring(road.length,
                               curblr.features[k].location.shstLocationStart,
                               curblr.features[k].location.shstLocationEnd)

----------------------------------------------------------------------------
(* Properties of the order of the features *)

\* the panel of the map whose regulation the feature renders
FeaturePanel(f) ==
    CHOOSE p \in Range(curb) :
        /\ p.location.street_id = f.location.shstRefId
        /\ p.location.side_of_street = f.location.sideOfStreet
        /\ RegulationsToCurblr(p.regulation).curblr = f.regulations

FeatureKey(f) ==
    <<f.location.shstRefId,
      IF f.location.sideOfStreet = LEFT THEN 0 ELSE 1,
      ReprRank(FeaturePanel(f)),
      f.location.shstLocationStart>>

RECURSIVE LexLeq(_, _)
LexLeq(a, b) ==
    IF a = <<>> THEN TRUE
    ELSE IF Head(a) # Head(b) THEN Head(a) < Head(b)
    ELSE LexLeq(Tail(a), Tail(b))

\* C17: the features are in the order of (street_id, side, regulation
\* stringification, segment start), and the k-th feature has objectId k,
\* counting from 0
C17_FeatureOrder ==
    pc = "emitted" =>
        /\ \A k \in 1..Len(curblr.features) :
              curblr.features[k].location.objectId = k - 1
        /\ \A k \in 1..(Len(curblr.features) - 1) :
              LexLeq(FeatureKey(curblr.features[k]), FeatureKey(curblr.features[k + 1]))

----------------------------------------------------------------------------
(* Properties of Regulation.to_curblr *)

\* C8: to_curblr emits the key timeSpans iff some period of the regulation
\* is not empty, and the key userClasses iff some user class is not empty
C8_KeyPresence ==
    pc \in {"rendered", "error"} =>
        /\ "timeSpans" \in out.keys
              <=> \E i \in 1..Len(regulation.periods) : ~PeriodEmpty(regulation.periods[i])
        /\ "userClasses" \in out.keys
              <=> \E i \in 1..Len(regulation.user_class) :
                     ~UserClassEmpty(regulation.user_class[i])

\* the periods of the regulation that are not empty
NonEmptyPeriods == {p \in Range(regulation.periods) : ~PeriodEmpty(p)}

\* C26: every object of timeSpans has exactly the keys of its non-empty
\* groups (effectiveDates iff dates, daysOfWeek iff the weekday set is not
\* empty, timesOfDay iff hours), and the empty periods add no object: there
\* is one object per weekday set of the non-empty periods
C26_PeriodKeys ==
    (pc = "rendered" /\ "timeSpans" \in out.keys) =>
        /\ \A i \in 1..Len(out.timeSpans) :
              LET o == out.timeSpans[i]
              IN /\ "daysOfWeek" \in o.keys <=> o.daysOfWeek # <<>>
                 /\ "effectiveDates" \in o.keys <=> o.effectiveDates # {}
                 /\ "timesOfDay" \in o.keys <=> o.timesOfDay # {}
        /\ Len(out.timeSpans) = Cardinality({p.days : p \in NonEmptyPeriods})

\* C27: period2curblr returns for every list of periods, and for every
\* weekday set of its non-empty periods timeSpans has one object, whose
\* effectiveDates and timesOfDay are the unions of those of the periods with
\* that weekday set
C27_PeriodGrouping ==
    (pc \in {"rendered", "error"} /\ NonEmptyPeriods # {}) =>
        /\ pc = "rendered"
        /\ \A d \in {p.days : p \in NonEmptyPeriods} :
              LET group == {p \in NonEmptyPeriods : p.days = d}
                  objects == {i \in 1..Len(out.timeSpans) :
                                 out.timeSpans[i].keys # {} /\ out.timeSpans[i].daysOfWeek = d}
              IN /\ Cardinality(objects) = 1
                 /\ \A i \in objects :
                       /\ out.timeSpans[i].effectiveDates =
                             {<<p.start_date, p.end_date>> : p \in {q \in group : ~dates_empty(q)}}
                       /\ out.timeSpans[i].timesOfDay =
                             {<<p.start_hour, p.end_hour>> : p \in {q \in group : ~hour_empty(q)}}

----------------------------------------------------------------------------
(* Properties of the functions of periods.py and utils.py *)

Called(fn) == pc \in {"returned", "raised"} /\ call.fn = fn

AbbreviationIndex(a) == (CHOOSE i \in 1..Len(ABBREVIATIONS) : ABBREVIATIONS[i] = a) - 1

\* the indices of the day names of an expression of abbreviations
NamedIndices(day) ==
    [i \in 1..((Len(day) + 1) \div 2) |-> AbbreviationIndex(day[2 * i - 1])]

Abbreviated(day) ==
    \A i \in 1..Len(day) : i % 2 = 1 => day[i] \in Range(ABBREVIATIONS)

\* C12: parse_days accepts the three-letter abbreviations: 'A-B' gives
\* index(A)..index(B), 'A+B+...' the sorted list of the named indices and
\* 'dim-sam' gives 0..6
C12_ParseDaysAbbreviations ==
    (Called("parse_days") /\ Abbreviated(call.day)) =>
        LET named == NamedIndices(call.day)
        IN /\ ret.raised = "none"
           /\ call.day = <<"dim", "-", "sam">> => ret.days = RangeList(0, 6)
           /\ (Len(call.day) = 3 /\ call.day[2] = "-" /\ named[1] <= named[2])
                 => ret.days = RangeList(named[1], named[2])
           /\ "+" \in Range(call.day) => ret.days = Ascending(Range(named))

\* the periods a row gives when it is not flagged as an exception
Expanded(pan) == PeriodFromInventory([pan EXCEPT !.RegTmpExcept = "non"]).periods

WeekdaysNotIn(days) == Ascending({d \in 0..6 : d \notin Range(days)})

\* first and second are what the exception makes of the expanded period p
InvertedPair(p, first, second) ==
    /\ first.days = WeekdaysNotIn(p.days) /\ second.days = WeekdaysNotIn(p.days)
    /\ p.start_hour # NoneV =>
          /\ first.start_hour = 0 /\ first.end_hour = p.start_hour
          /\ second.start_hour = p.end_hour /\ second.end_hour = 2359
    /\ p.start_hour = NoneV =>
          /\ first.start_hour = NoneV /\ first.end_hour = NoneV
          /\ second.start_hour = NoneV /\ second.end_hour = NoneV
    /\ p.start_date # NoneV =>
          /\ first.start_date = Date(1, 1) /\ first.end_date = p.start_date
          /\ second.start_date = p.end_date /\ second.end_date = Date(12, 31)
    /\ p.start_date = NoneV =>
          /\ first.start_date = NoneV /\ first.end_date = NoneV
          /\ second.start_date = NoneV /\ second.end_date = NoneV

\* C13: for a row flagged as a period exception, Period.from_inventory
\* replaces each expanded Period by (00:00 to h1) and (h2 to 23:59) on the
\* weekdays not in D, with dates (Jan 1 to start_date) and (end_date to
\* Dec 31) when dates are set, and keeps one of the two when they are equal
C13_ExemptionInversion ==
    (Called("Period.from_inventory") /\ pc = "returned"
        /\ call.pan.RegTmpExcept = "oui") =>
        LET expanded == Expanded(call.pan)
            two == expanded[1].start_hour # NoneV \/ expanded[1].start_date # NoneV
            size == IF two THEN 2 ELSE 1
        IN /\ Len(ret.periods) = size * Len(expanded)
           /\ \A i \in 1..Len(expanded) :
                 InvertedPair(expanded[i], ret.periods[size * (i - 1) + 1],
                              ret.periods[size * i])

\* 09:00-17:00 from Monday to Friday gave 00:00-09:00 and 17:00-23:59 on
\* Saturday and Sunday
C13_Witness ==
    /\ Called("Period.from_inventory")
    /\ call.pan.RegTmpExcept = "oui"
    /\ call.pan.RegTmpJours = <<"lundi", "-", "vendredi">>
    /\ pc = "returned"
    /\ ret.periods = <<Period(0, 900, <<5, 6>>, NoneV, NoneV),
                       Period(1700, 2359, <<5, 6>>, NoneV, NoneV)>>

\* C14: for a row with the school flag that is no period exception,
\* Period.from_inventory returns exactly the two Periods 01-01 to 06-30 and
\* 09-01 to 12-31 on Monday to Friday without hours, whatever the row's own
\* dates, days and hours; their rendering has no timesOfDay
C14_SchoolMode ==
    (Called("Period.from_inventory") /\ pc = "returned"
        /\ call.pan.RegTmpEcole = "oui" /\ call.pan.RegTmpExcept # "oui") =>
        /\ ret.periods = <<Period(NoneV, NoneV, <<0, 1, 2, 3, 4>>, Date(1, 1), Date(6, 30)),
                           Period(NoneV, NoneV, <<0, 1, 2, 3, 4>>, Date(9, 1), Date(12, 31))>>
        /\ \A i \in 1..Len(ret.periods) :
              "timesOfDay" \notin PeriodToCurblr(ret.periods[i]).keys

\* the day clamped to the last day of the month (months count from 0)
Clamped(month, day) == Date(month + 1, Min2(day, MonthLength(month + 1)))

\* C20: from_inventory_to_list_date returns two lists of equal length with
\* one (from, to) pair per run of consecutive months: start_day in the first
\* month of the run and end_day in its last month, each clamped to the
\* month's last day; an empty list of months gives two empty lists
C20_MonthsToDateRanges ==
    Called("from_inventory_to_list_date") =>
        LET runs == Runs(call.months, <<>>)
        IN /\ ret.raised = "none"
           /\ Len(ret.dates_from) = Len(runs)
           /\ Len(ret.dates_to) = Len(runs)
           /\ \A i \in 1..Len(runs) :
                 /\ ret.dates_from[i] = Clamped(runs[i][1], call.start_day)
                 /\ ret.dates_to[i] = Clamped(Last(runs[i]), call.end_day)

WellFormed(p) ==
    /\ (p.start_hour # NoneV) <=> (p.end_hour # NoneV)
    /\ (p.start_date # NoneV) <=> (p.end_date # NoneV)
    /\ ~(p.start_hour = 0 /\ p.end_hour = 0)

\* C21: every Period returned by Period.from_inventory, school mode and
\* exemption inversion included, or left by Period.update has start_hour set
\* iff end_hour set, start_date set iff end_date set, and not both hours at
\* 00:00
C21_PeriodWellFormed ==
    /\ (Called("Period.from_inventory") /\ pc = "returned") =>
          \A i \in 1..Len(ret.periods) : WellFormed(ret.periods[i])
    /\ Called("Period.update") => WellFormed(ret.period)

\* C22: Rule.exempt on a PERMISSION rule returns the original unchanged and
\* a twin with max_stay cleared and the negated payment; on an INTERDICTION
\* rule one rule of activity PERMISSION; on another rule that rule unchanged
C22_RuleExempt ==
    Called("Rule.exempt") =>
        LET r == call.rule
        IN /\ r.activity = PERMISSION =>
                 /\ Len(ret.rules) = 2
                 /\ r \in Range(ret.rules)
                 /\ [r EXCEPT !.max_stay = NoneV, !.payement = ~r.payement]
                       \in Range(ret.rules)
           /\ r.activity = INTERDICTION =>
                 ret.rules = <<[r EXCEPT !.activity = PERMISSION]>>
           /\ r.activity \notin {PERMISSION, INTERDICTION} => ret.rules = <<r>>

\* the Regulations are the same but for the identity of their lists
SameRegulation(a, b) == [a EXCEPT !.ucl = 0] = [b EXCEPT !.ucl = 0]

\* the periods or user classes that the Regulations of Q with a Rule equal
\* to rule hold
GivenBy(Q, rule, field) ==
    UNION {Range(Q[j][field]) : j \in {k \in 1..Len(Q) : RuleEq(Q[k].rule, rule)}}

\* C23: P.merge(Q) completes for panels with any number of Regulations;
\* every Regulation q of Q is appended to P or has its periods and user
\* classes in a Regulation of P with an equal Rule, and a Regulation of P
\* receives nothing from a Regulation of Q with a different Rule
C23_MergeConserves ==
    Called("Panel.merge") =>
        LET P == call.self.regulation
            Q == call.other.regulation
            merged == ret.panel.regulation
        IN /\ ret.raised = "none"
           /\ \A j \in 1..Len(Q) :
                 \/ \E i \in 1..Len(merged) : SameRegulation(merged[i], Q[j])
                 \/ \E i \in 1..Len(merged) :
                       /\ RuleEq(merged[i].rule, Q[j].rule)
                       /\ Range(Q[j].periods) \subseteq Range(merged[i].periods)
                       /\ Range(Q[j].user_class) \subseteq Range(merged[i].user_class)
           /\ \A i \in 1..Len(P) :
                 /\ Range(merged[i].periods)
                       \subseteq Range(P[i].periods) \cup GivenBy(Q, P[i].rule, "periods")
                 /\ Range(merged[i].user_class)
                       \subseteq Range(P[i].user_class) \cup GivenBy(Q, P[i].rule, "user_class")

\* p after its update with one of the incoming periods, or with all of
\* them in turn
UpdatesOf(p, incoming) ==
    {PeriodUpdate(p, incoming[a]) : a \in 1..Len(incoming)} \cup {UpdateAll(p, incoming)}

\* C24: extend_period with a Regulation whose periods are not all empty
\* keeps, for every period a Regulation of the panel had, an update of it
\* with the incoming periods, and gives the incoming periods to a
\* Regulation that had none
C24_ExtendPeriodKeeps ==
    (Called("Panel.extend_period")
        /\ \E a \in 1..Len(call.reg.periods) : ~PeriodEmpty(call.reg.periods[a])) =>
        \A i \in 1..Len(call.regs) :
            LET old == call.regs[i].periods
                new == ret.regs[i].periods
            IN /\ old = <<>> => new = call.reg.periods
               /\ \A k \in 1..Len(old) :
                     UpdatesOf(old[k], call.reg.periods) \cap Range(new) # {}

\* C25: extend_userclass with a Regulation whose first user class is an
\* exception: for every Regulation of the panel, a new Regulation with the
\* incoming classes and its periods is appended where Rule.exempt() yields
\* two rules, and the incoming classes are appended to it otherwise
C25_ExtendUserclassException ==
    (Called("Panel.extend_userclass")
        /\ (\E k \in 1..Len(call.reg.user_class) : ~UserClassEmpty(call.reg.user_class[k]))
        /\ call.reg.user_class[1].is_except) =>
        \A i \in 1..Len(call.regs) :
            IF Len(RuleExempt(call.regs[i].rule).rules) = 2
            THEN \E n \in (Len(call.regs) + 1)..Len(ret.regs) :
                    /\ ret.regs[n].user_class = call.reg.user_class
                    /\ ret.regs[n].periods = call.regs[i].periods
            ELSE Range(call.reg.user_class) \subseteq Range(ret.regs[i].user_class)


\* a range 'A-B' of two day names
DayRange(day) ==
    /\ Len(day) = 3
    /\ day[2] = "-"
    /\ DaysIndex(<<day[1]>>) # -1
    /\ DaysIndex(<<day[3]>>) # -1

\* a union 'A+B+...' of day names
DayUnion(day) ==
    /\ Len(day) >= 3
    /\ \A i \in 1..Len(day) :
          IF i % 2 = 1 THEN DaysIndex(<<day[i]>>) # -1 ELSE day[i] = "+"

Descending(day) == DayRange(day) /\ DaysIndex(<<day[1]>>) > DaysIndex(<<day[3]>>)

OtherShape(day) ==
    /\ DaysIndex(day) = -1
    /\ ~DayRange(day)
    /\ ~DayUnion(day)
    /\ day # <<"dim", "-", "sam">>

\* C30: parse_days raises, and returns no list, on a range 'A-B' whose first
\* day comes after its last and on every expression that is neither a day
\* name, a range, a union nor 'dim-sam'; it never returns an empty list
C30_ParseDaysRejects ==
    Called("parse_days") =>
        /\ (Descending(call.day) \/ OtherShape(call.day)) => pc = "raised"
        /\ pc = "returned" => ret.days # <<>>

\* position of a key in the order of the map
KeyIndex(k) == CHOOSE i \in 1..Len(keys) : keys[i] = k

\* C29: _drop_duplicates removes a panel only if an earlier retained panel is
\* equal to it (position, arrow, location, regulations with the rule's
\* reason), and afterwards no two retained panels are equal
C29_DropOnlyDuplicates ==
    [][(pc = "ingest" /\ pc' = "done") =>
          /\ \A k \in DOMAIN pans \ DOMAIN pans' :
                \E j \in DOMAIN pans' :
                    /\ KeyIndex(j) < KeyIndex(k)
                    /\ PanelEq(MergedKey(j).panel, MergedKey(k).panel)
          /\ \A j, k \in DOMAIN pans' :
                j # k => ~PanelEq(pans'[j].val[1], pans'[k].val[1])]_vars

\* C28: enrich_with_roadnetwork leaves the identity tuple (point, side,
\* street_id) of every panel's location, and Location and Panel equality and
\* hash, as they were, also when the street id is not in the road table
C28_EnrichKeepsIdentity ==
    [][(pc = "signs" /\ pc' = "enriched") =>
          \A i \in 1..Len(curb) :
              /\ LocationKey(curb'[i].location) = LocationKey(curb[i].location)
              /\ PanelHash(curb'[i]) = PanelHash(curb[i])
              /\ PanelEq(curb'[i], curb[i])]_vars
====
